---- MODULE Spec2Model ----
(***************************************************************************)
(* Model of main.go of HuggingFaceModelDownloader: the configuration       *)
(* resolver (LoadConfig, flag binding, flag parsing), the root command     *)
(* (Args validator and RunE: token resolution, install branch, identity    *)
(* validation, .env load, storage-target assembly, cleanup mode, download  *)
(* retry loop) and installBinary.                                          *)
(*                                                                         *)
(* Two specifications share the variables:                                 *)
(*   SpecConfig  main() from its entry up to rootCmd.Execute               *)
(*   Spec        rootCmd.Execute: Args, RunE, installBinary, process exit  *)
(***************************************************************************)
EXTENDS Integers, Sequences, FiniteSets, TLC

VARIABLES
    pc,               \* position of the single control thread
    config,           \* *Config, the struct the flags are bound to
    justDownload,     \* main.go:120
    install,          \* main.go:122
    cleanupCorrupted, \* main.go:124
    args,             \* positional arguments handed to Args / RunE
    fileKeys,         \* keys present in ~/.config/hfdownloader.json (input)
    fileVal,          \* their values (input)
    jdEnv,            \* HFDOWNLOADER_JUST_DOWNLOAD (input)
    cliSet,           \* flags given on the command line so far (input)
    cliVal,           \* their values (input)
    env,              \* process environment as observed by os.Getenv
    cfg0,             \* config as rootCmd.Execute found it (history)
    IsDataset,        \* main.go:171
    ModelOrDataSet,   \* main.go:172
    r2cfg,            \* main.go:200
    i,                \* loop counter, main.go:246
    dlLog,            \* parameter tuples of the hfd.DownloadModel calls made
    dlResults,        \* what each of those calls returned: "ok" or "error"
    cleanupLog,       \* parameter tuples of the hfd.CleanupCorruptedFiles calls made
    out,              \* what was printed, in order (kinds of line)
    sleeps,           \* durations slept, in order
    credChecks,       \* number of times the R2 credentials were read
    exit,             \* how the process ended
    inst              \* installBinary's locals and effects

vars == <<pc, config, justDownload, install, cleanupCorrupted, args, fileKeys,
          fileVal, jdEnv, cliSet, cliVal, env, cfg0, IsDataset,
          ModelOrDataSet, r2cfg, i, dlLog, dlResults, cleanupLog, out, sleeps, credChecks,
          exit, inst>>

cfgVars == <<fileKeys, fileVal, jdEnv, cliSet, cliVal>>
runVars == <<args, env, cfg0, IsDataset, ModelOrDataSet, r2cfg, i,
             dlLog, dlResults, cleanupLog, out, sleeps, credChecks, inst>>

----------------------------------------------------------------------------
(* Strings that the code concatenates or inspects are sequences of          *)
(* one-character strings; all others are TLA+ strings.                      *)

Str_hf_dataset == <<"h", "f", "_", "d", "a", "t", "a", "s", "e", "t">>
Slash == <<"/">>

\* Bounds of the model.
MaxFileFields == 2   \* keys a configuration file sets
MaxFlags == 1        \* flags a command line of SpecConfig gives
MaxRetriesBound == 3 \* largest MaxRetries a run is given
MaxArgs == 2         \* most positional arguments

----------------------------------------------------------------------------
(* Config and DefaultConfig                                                 *)

Fields == {"NumConnections", "RequiresAuth", "AuthToken", "ModelName",
           "DatasetName", "Branch", "Storage", "OneFolderPerFilter", "SkipSHA",
           "MaxRetries", "RetryInterval", "JustDownload", "SilentMode", "UseR2",
           "R2BucketName", "R2AccountID", "R2AccessKey", "R2SecretKey",
           "SkipLocal", "R2Subfolder", "HFPrefix", "MaxWorkers"}

\* The zero value of the struct: what a field holds unless something sets it.
ZeroConfig ==
    [NumConnections |-> 0, RequiresAuth |-> FALSE, AuthToken |-> "",
     ModelName |-> "", DatasetName |-> "", Branch |-> "", Storage |-> "",
     OneFolderPerFilter |-> FALSE, SkipSHA |-> FALSE, MaxRetries |-> 0,
     RetryInterval |-> 0, JustDownload |-> FALSE, SilentMode |-> FALSE,
     UseR2 |-> FALSE, R2BucketName |-> "", R2AccountID |-> "",
     R2AccessKey |-> "", R2SecretKey |-> "", SkipLocal |-> FALSE,
     R2Subfolder |-> <<>>, HFPrefix |-> "", MaxWorkers |-> 0]

DefaultConfig ==
    [ZeroConfig EXCEPT !.NumConnections = 5, !.Branch = "main",
                       !.Storage = "./", !.MaxRetries = 3,
                       !.RetryInterval = 5, !.R2Subfolder = Str_hf_dataset,
                       !.MaxWorkers = 16]

----------------------------------------------------------------------------
(* Inputs of the configuration resolver                                     *)

\* The value a configuration file gives a key it sets: one per key, different
\* from the default and from the value a flag gives.
FileAlt ==
    [NumConnections |-> 8, RequiresAuth |-> TRUE, AuthToken |-> "file-token",
     ModelName |-> "file/model", DatasetName |-> "file/dataset",
     Branch |-> "file-branch", Storage |-> "/file", OneFolderPerFilter |-> TRUE,
     SkipSHA |-> TRUE, MaxRetries |-> 7, RetryInterval |-> 9,
     JustDownload |-> TRUE, SilentMode |-> TRUE, UseR2 |-> TRUE,
     R2BucketName |-> "file-bucket", R2AccountID |-> "file-account",
     R2AccessKey |-> "file-key", R2SecretKey |-> "file-secret",
     SkipLocal |-> TRUE, R2Subfolder |-> <<"f">>, HFPrefix |-> "file-prefix",
     MaxWorkers |-> 4]

RECURSIVE SubsetsUpTo(_, _)
SubsetsUpTo(S, k) ==
    IF k = 0 THEN {{}}
    ELSE LET P == SubsetsUpTo(S, k - 1)
         IN  P \cup {p \cup {x} : p \in P, x \in S}

\* json.Unmarshal(file, &config): the keys present overwrite, the rest stay.
Unmarshal(base, keys, vals) ==
    [f \in Fields |-> IF f \in keys THEN vals[f] ELSE base[f]]

\* The persistent and local flags of rootCmd, and the config field each is
\* bound to ("" for a flag bound to a local variable of main).
FlagTarget ==
    [model |-> "ModelName", dataset |-> "DatasetName", branch |-> "Branch",
     storage |-> "Storage", concurrent |-> "MaxWorkers", token |-> "AuthToken",
     appendFilterFolder |-> "OneFolderPerFilter", skipSHA |-> "SkipSHA",
     maxRetries |-> "MaxRetries", retryInterval |-> "RetryInterval",
     justDownload |-> "", install |-> "", silentMode |-> "SilentMode",
     r2 |-> "UseR2", r2bucket |-> "R2BucketName", r2account |-> "R2AccountID",
     r2accesskey |-> "R2AccessKey", r2secretkey |-> "R2SecretKey",
     skiplocal |-> "SkipLocal", cleanupcorrupted |-> "",
     r2subfolder |-> "R2Subfolder", hfprefix |-> "HFPrefix"]

FlagNames == DOMAIN FlagTarget

\* Flags registered with config's own value as the default (main.go:274-288, 309).
ConfigDefaulted == {"model", "dataset", "branch", "storage", "concurrent",
                    "token", "appendFilterFolder", "skipSHA", "maxRetries",
                    "retryInterval", "silentMode", "r2subfolder"}

\* Flags registered with a literal default (main.go:302-307, 310).
LiteralDefaulted == {"r2", "r2bucket", "r2account", "r2accesskey",
                     "r2secretkey", "skiplocal", "hfprefix"}

\* The values a command line can give a flag.
FlagDomain(fl) ==
    CASE fl \in {"appendFilterFolder", "skipSHA", "justDownload", "install",
                 "silentMode", "r2", "skiplocal", "cleanupcorrupted"}
              -> BOOLEAN
      [] fl \in {"concurrent", "maxRetries", "retryInterval"} -> {2}
      [] fl = "r2subfolder" -> {<<"c">>}
      [] OTHER -> {"cli-value"}

----------------------------------------------------------------------------
(* LoadConfig, main.go:64-88                                                *)

\* Outcome of os.UserHomeDir / os.ReadFile / json.Unmarshal.
FileKinds == {"ok", "absent", "unreadable", "malformed", "nohome"}

LoadConfigResult(kind, keys, vals, jd) ==
    LET base   == DefaultConfig
        loaded == IF kind = "ok" THEN Unmarshal(base, keys, vals) ELSE base
    IN  IF kind = "absent" THEN base            \* line 74: returns before the env check
        ELSE IF jd \in {"1", "true"} THEN [loaded EXCEPT !.Storage = "./"]
        ELSE loaded

LoadConfig ==
    /\ pc = "main"
    /\ \E kind \in FileKinds, jd \in {"", "1", "true", "0"} :
       \E keys \in (IF kind = "ok" THEN SubsetsUpTo(Fields, MaxFileFields) ELSE {{}}) :
          /\ fileKeys' = keys
          /\ fileVal' = Unmarshal(DefaultConfig, keys, FileAlt)
          /\ jdEnv' = jd
          /\ IF kind \in {"nohome", "malformed"}
             THEN /\ pc' = "exited"          \* main.go:117-119, log.Fatalf
                  /\ exit' = "fatal"
                  /\ UNCHANGED config
             ELSE /\ pc' = "bind"
                  /\ config' = LoadConfigResult(kind, keys, fileVal', jd)
                  /\ UNCHANGED exit
    /\ UNCHANGED <<justDownload, install, cleanupCorrupted, cliSet, cliVal>>
    /\ UNCHANGED runVars

----------------------------------------------------------------------------
(* Flag registration and parsing, main.go:274-310 and cobra's Execute       *)

\* The flag bound to a config field ("none" for a field no flag is bound to).
FlagOf(f) ==
    IF \E fl \in FlagNames : FlagTarget[fl] = f
    THEN CHOOSE fl \in FlagNames : FlagTarget[fl] = f
    ELSE "none"

\* The default a flag is registered with: the config field's current value
\* for the flags of lines 274-288 and 309, a literal false or "" for the
\* flags of lines 302-307 and 310.
FlagDefault(fl, c) ==
    IF fl \in ConfigDefaulted THEN c[FlagTarget[fl]] ELSE ZeroConfig[FlagTarget[fl]]

\* pflag's XxxVar(p, name, value, usage) stores value in *p when the flag is
\* registered, so registration writes every bound field.
BindFlagsResult(c) ==
    [f \in Fields |-> IF FlagOf(f) = "none" THEN c[f] ELSE FlagDefault(FlagOf(f), c)]

BindFlags ==
    /\ pc = "bind"
    /\ config' = BindFlagsResult(config)
    /\ justDownload' = config.JustDownload      \* main.go:284
    /\ install' = FALSE                         \* main.go:285
    /\ cleanupCorrupted' = FALSE                \* main.go:308
    /\ pc' = "parse"
    /\ UNCHANGED <<exit, cfgVars>>
    /\ UNCHANGED runVars

\* One flag of the command line is parsed: its value is stored in the
\* variable the flag is bound to.
ParseFlag ==
    /\ pc = "parse"
    /\ Cardinality(cliSet) < MaxFlags
    /\ \E fl \in FlagNames \ cliSet :
       \E v \in FlagDomain(fl) :
          /\ cliSet' = cliSet \cup {fl}
          /\ cliVal' = [cliVal EXCEPT ![fl] = v]
          /\ config' = IF FlagTarget[fl] = "" THEN config
                       ELSE [config EXCEPT ![FlagTarget[fl]] = v]
          /\ justDownload' = IF fl = "justDownload" THEN v ELSE justDownload
          /\ install' = IF fl = "install" THEN v ELSE install
          /\ cleanupCorrupted' = IF fl = "cleanupcorrupted" THEN v
                                 ELSE cleanupCorrupted
    /\ UNCHANGED <<pc, exit, fileKeys, fileVal, jdEnv>>
    /\ UNCHANGED runVars

\* The command line is exhausted: cobra goes on to Args and RunE.
Execute ==
    /\ pc = "parse"
    /\ pc' = "execute"
    /\ UNCHANGED <<config, justDownload, install, cleanupCorrupted, exit, cfgVars>>
    /\ UNCHANGED runVars

----------------------------------------------------------------------------
(* State of a run that has not used a variable yet                          *)

EnvVars == {"HF_TOKEN", "HUGGING_FACE_HUB_TOKEN", "R2_ACCOUNT_ID",
            "R2_WRITE_ACCESS_KEY_ID", "R2_WRITE_SECRET_ACCESS_KEY",
            "R2_BUCKET_NAME"}

\* var r2cfg *hfd.R2Config, main.go:200: the nil pointer.
NilR2Config ==
    [isNil |-> TRUE, AccountID |-> "", AccessKeyID |-> "", AccessKeySecret |-> "",
     BucketName |-> "", Region |-> "", Subfolder |-> <<>>]

NoInstall == [stage |-> "none", goos |-> "?", needsSudo |-> FALSE, log |-> <<>>]

RunIdle ==
    /\ args = <<>>
    /\ env = [k \in EnvVars |-> "?"]
    /\ cfg0 = ZeroConfig
    /\ IsDataset = FALSE
    /\ ModelOrDataSet = ""
    /\ r2cfg = NilR2Config
    /\ i = 0
    /\ dlLog = <<>>
    /\ dlResults = <<>>
    /\ cleanupLog = <<>>
    /\ out = <<>>
    /\ sleeps = <<>>
    /\ credChecks = 0
    /\ inst = NoInstall

InitConfig ==
    /\ pc = "main"
    /\ config = ZeroConfig
    /\ justDownload = FALSE
    /\ install = FALSE
    /\ cleanupCorrupted = FALSE
    /\ fileKeys = {}
    /\ fileVal = DefaultConfig
    /\ jdEnv = ""
    /\ cliSet = {}
    /\ cliVal = [fl \in FlagNames |->
                   IF FlagTarget[fl] = "" THEN FALSE ELSE ZeroConfig[FlagTarget[fl]]]
    /\ exit = "running"
    /\ RunIdle

NextConfig == LoadConfig \/ BindFlags \/ ParseFlag \/ Execute

SpecConfig == InitConfig /\ [][NextConfig]_vars

----------------------------------------------------------------------------
(* The process environment and the .env file                                *)

\* env[k] is "?" until the code first reads k: the value is then drawn from
\* EnvDomain(k) and kept, so that every later read sees the same value unless
\* godotenv.Load has set the variable in between.
EnvValue ==
    [HF_TOKEN |-> "hf-token", HUGGING_FACE_HUB_TOKEN |-> "hub-token",
     R2_ACCOUNT_ID |-> "account", R2_WRITE_ACCESS_KEY_ID |-> "access-key",
     R2_WRITE_SECRET_ACCESS_KEY |-> "secret-key", R2_BUCKET_NAME |-> "env-bucket"]

DotenvValue ==
    [HF_TOKEN |-> "hf-token.env", HUGGING_FACE_HUB_TOKEN |-> "hub-token.env",
     R2_ACCOUNT_ID |-> "account", R2_WRITE_ACCESS_KEY_ID |-> "access-key",
     R2_WRITE_SECRET_ACCESS_KEY |-> "secret-key", R2_BUCKET_NAME |-> "env-bucket"]

EnvDomain(k) == {"", EnvValue[k]}

\* os.Getenv(k): the values a read of k can return in environment e.
Getenv(e, k) == IF e[k] = "?" THEN EnvDomain(k) ELSE {e[k]}

\* A line of output or a logged error: its kind and what it names.
Line(kind, name, n, of) == [kind |-> kind, name |-> name, n |-> n, of |-> of]

Count(seq, kind) == Cardinality({j \in 1..Len(seq) : seq[j].kind = kind})

----------------------------------------------------------------------------
(* rootCmd.Args, main.go:139-144                                            *)

ArgsError(jd, a) == jd /\ Len(a) < 1

ArgsCheck ==
    /\ pc = "args"
    /\ IF ArgsError(justDownload, args)
       THEN /\ pc' = "exited"                \* Execute returns it, main.go:312-314
            /\ exit' = "fatal"
            /\ out' = Append(out, Line("Error: requires a model name argument", "", 0, 0))
       ELSE /\ pc' = "runE"
            /\ UNCHANGED <<exit, out>>
    /\ UNCHANGED <<config, justDownload, install, cleanupCorrupted, cfgVars, args,
                   env, cfg0, IsDataset, ModelOrDataSet, r2cfg, i, dlLog, dlResults,
                   cleanupLog, sleeps, credChecks, inst>>

----------------------------------------------------------------------------
(* RunE: just-download mode, main.go:146-149                                *)

JustDownloadConfig(c, jd, a) ==
    IF jd THEN [c EXCEPT !.ModelName = a[1], !.Storage = "./"] ELSE c

JustDownloadMode ==
    /\ pc = "runE"
    /\ config' = JustDownloadConfig(config, justDownload, args)
    /\ pc' = "token1"
    /\ UNCHANGED <<justDownload, install, cleanupCorrupted, exit, cfgVars>>
    /\ UNCHANGED runVars

----------------------------------------------------------------------------
(* RunE: auth-token resolution, main.go:156-164 and again main.go:187-195   *)

DeprecationWarning == Line("DeprecationWarning", "HUGGING_FACE_HUB_TOKEN", 0, 0)

\* Variant of ResolveAuthToken without the test of config.AuthToken: a
\* variable that is set in the environment wins over the token already held.
ResolveAuthTokenEnvFirst(tok, hf, hub) ==
    IF hf \notin {"", "?"}
    THEN [token |-> hf, warned |-> FALSE]
    ELSE IF hub \notin {"", "?"}
    THEN [token |-> hub, warned |-> TRUE]
    ELSE [token |-> tok, warned |-> FALSE]

\* One evaluation of the chain: config.AuthToken afterwards and whether the
\* deprecation notice was printed. hf and hub are what os.Getenv returns for
\* HF_TOKEN and HUGGING_FACE_HUB_TOKEN (hub is read only when hf is empty,
\* hf only when tok is empty).
ResolveAuthToken(tok, hf, hub) ==
    IF tok = ""
    THEN LET t1 == hf
         IN  IF t1 = ""
             THEN LET t2 == hub
                  IN  [token |-> t2, warned |-> t2 # ""]
             ELSE [token |-> t1, warned |-> FALSE]
    ELSE [token |-> tok, warned |-> FALSE]

ResolveTokenAt(here, next) ==
    /\ pc = here
    /\ pc' = next
    /\ LET readsHF == config.AuthToken = ""
       IN  \E hf \in (IF readsHF THEN Getenv(env, "HF_TOKEN") ELSE {env["HF_TOKEN"]}) :
           \E hub \in (IF readsHF /\ hf = ""
                       THEN Getenv(env, "HUGGING_FACE_HUB_TOKEN")
                       ELSE {env["HUGGING_FACE_HUB_TOKEN"]}) :
              LET r == ResolveAuthToken(config.AuthToken, hf, hub)
              IN  /\ env' = [env EXCEPT !["HF_TOKEN"] = hf,
                                        !["HUGGING_FACE_HUB_TOKEN"] = hub]
                  /\ config' = [config EXCEPT !.AuthToken = r.token]
                  /\ out' = IF r.warned THEN Append(out, DeprecationWarning) ELSE out
    /\ UNCHANGED <<justDownload, install, cleanupCorrupted, exit, cfgVars, args,
                   cfg0, IsDataset, ModelOrDataSet, r2cfg, i, dlLog, dlResults, cleanupLog,
                   sleeps, credChecks, inst>>

ResolveToken1 == ResolveTokenAt("token1", "installBranch")

ResolveToken2 == ResolveTokenAt("token2", "assemble")

----------------------------------------------------------------------------
(* RunE: install branch, main.go:165-170, and installBinary, main.go:317-373 *)

InstallBranch ==
    /\ pc = "installBranch"
    /\ pc' = IF install THEN "installBinary" ELSE "validate"
    /\ UNCHANGED <<config, justDownload, install, cleanupCorrupted, exit, cfgVars>>
    /\ UNCHANGED runVars

\* installBinary returned err: log.Fatal(err), main.go:166-168.
InstallFailed(event) ==
    /\ pc' = "exited"
    /\ exit' = "fatal"
    /\ inst' = [inst EXCEPT !.stage = "failed", !.log = Append(@, event)]

InstallFrame ==
    UNCHANGED <<config, justDownload, install, cleanupCorrupted, cfgVars, args, env,
                cfg0, IsDataset, ModelOrDataSet, r2cfg, i, dlLog, dlResults, cleanupLog, out,
                sleeps, credChecks>>

\* Variant of UnsupportedPlatform with the platform check left out.
UnsupportedPlatformNever(goos) == FALSE

\* runtime.GOOS == "windows", main.go:318.
UnsupportedPlatform(goos) == goos = "windows"

\* Platform check, os.Executable and the destination path, main.go:318-330.
InstallLocate ==
    /\ pc = "installBinary"
    /\ \E goos \in {"linux", "darwin", "windows"}, exeErr \in BOOLEAN :
          IF UnsupportedPlatform(goos)
          THEN /\ ~exeErr
               /\ pc' = "exited"
               /\ exit' = "fatal"
               /\ inst' = [inst EXCEPT !.stage = "failed", !.goos = goos,
                                       !.log = Append(@, "unsupported")]
          ELSE IF exeErr
          THEN /\ pc' = "exited"
               /\ exit' = "fatal"
               /\ inst' = [inst EXCEPT !.stage = "failed", !.goos = goos,
                                       !.log = Append(@, "executable-error")]
          ELSE /\ pc' = "checkExisting"
               /\ inst' = [inst EXCEPT !.stage = "located", !.goos = goos,
                                       !.needsSudo = FALSE]
               /\ UNCHANGED exit
    /\ InstallFrame

\* Variant of NeedsSudoAfter that requests elevation after every outcome.
NeedsSudoAlways(err) == TRUE

\* Whether an error of a filesystem call requests elevation, main.go:337, 355.
NeedsSudoAfter(err) == err = "permission"

\* os.Stat and os.Remove of the destination, main.go:333-343.
InstallCheckExisting ==
    /\ pc = "checkExisting"
    /\ \E exists \in BOOLEAN, err \in {"none", "permission", "other"} :
          IF ~exists
          THEN /\ err = "none"
               /\ pc' = "copy"
               /\ inst' = [inst EXCEPT !.log = Append(@, "stat")]
               /\ UNCHANGED exit
          ELSE IF err = "none" \/ NeedsSudoAfter(err)
          THEN /\ pc' = "copy"
               /\ inst' = [inst EXCEPT
                              !.needsSudo = NeedsSudoAfter(err),
                              !.log = Append(@, IF err = "none" THEN "removed"
                                                ELSE "remove-denied")]
               /\ UNCHANGED exit
          ELSE InstallFailed("remove-error")
    /\ InstallFrame

\* os.Open of the executable and copyFile, main.go:346-360 and 376-389.
\* openErr is the error of os.Open (any error returns), err that of copyFile.
InstallCopy ==
    /\ pc = "copy"
    /\ \E openErr \in {"none", "permission", "other"},
          err \in {"none", "permission", "other"} :
          IF openErr # "none"
          THEN /\ err = "none"
               /\ InstallFailed(IF openErr = "permission" THEN "open-denied"
                                ELSE "open-error")
          ELSE IF err = "none" \/ NeedsSudoAfter(err)
          THEN /\ pc' = "elevate"
               /\ inst' = [inst EXCEPT
                              !.needsSudo = inst.needsSudo \/ NeedsSudoAfter(err),
                              !.log = Append(@, IF err = "none" THEN "copied"
                                                ELSE "copy-denied")]
               /\ UNCHANGED exit
          ELSE InstallFailed("copy-error")
    /\ InstallFrame

\* Variant of InstallElevate without the os.Exit(0) of main.go:169: after a
\* successful install RunE goes on with the validation.
InstallElevateNoExit ==
    /\ pc = "elevate"
    /\ IF inst.needsSudo
       THEN \E sudoErr \in BOOLEAN :
               IF sudoErr
               THEN /\ pc' = "exited"
                    /\ exit' = "fatal"
                    /\ inst' = [inst EXCEPT !.stage = "failed",
                                            !.log = @ \o <<"sudo", "sudo-error">>]
               ELSE /\ pc' = "validate"
                    /\ UNCHANGED exit
                    /\ inst' = [inst EXCEPT !.stage = "installed",
                                            !.log = @ \o <<"sudo", "installed">>]
       ELSE /\ pc' = "validate"
            /\ UNCHANGED exit
            /\ inst' = [inst EXCEPT !.stage = "installed",
                                    !.log = Append(@, "installed")]
    /\ InstallFrame

\* Variant of InstallElevate that drops the error of the elevated command
\* and falls through to the success log.
InstallElevateIgnoringError ==
    /\ pc = "elevate"
    /\ IF inst.needsSudo
       THEN \E sudoErr \in BOOLEAN :
               /\ pc' = "exited"
               /\ exit' = "success"
               /\ inst' = [inst EXCEPT
                              !.stage = "installed",
                              !.log = @ \o (IF sudoErr
                                            THEN <<"sudo", "sudo-error", "installed">>
                                            ELSE <<"sudo", "installed">>)]
       ELSE /\ pc' = "exited"
            /\ exit' = "success"
            /\ inst' = [inst EXCEPT !.stage = "installed",
                                    !.log = Append(@, "installed")]
    /\ InstallFrame

\* The elevated command, the success log and os.Exit(0), main.go:363-372, 169.
InstallElevate ==
    /\ pc = "elevate"
    /\ IF inst.needsSudo
       THEN \E sudoErr \in BOOLEAN :
               IF sudoErr
               THEN /\ pc' = "exited"
                    /\ exit' = "fatal"
                    /\ inst' = [inst EXCEPT !.stage = "failed",
                                            !.log = @ \o <<"sudo", "sudo-error">>]
               ELSE /\ pc' = "exited"
                    /\ exit' = "success"
                    /\ inst' = [inst EXCEPT !.stage = "installed",
                                            !.log = @ \o <<"sudo", "installed">>]
       ELSE /\ pc' = "exited"
            /\ exit' = "success"
            /\ inst' = [inst EXCEPT !.stage = "installed",
                                    !.log = Append(@, "installed")]
    /\ InstallFrame

----------------------------------------------------------------------------
(* RunE: model / dataset validation, main.go:171-183                        *)

\* Mutant of the validation: the final else accepts the empty dataset name.
IdentityNoElse(c) ==
    IF c.ModelName # ""
    THEN [ok |-> TRUE, name |-> c.ModelName, isDataset |-> FALSE]
    ELSE [ok |-> TRUE, name |-> c.DatasetName, isDataset |-> TRUE]

\* The target the run downloads, or no target at all (ok = FALSE).
Identity(c) ==
    IF c.ModelName # ""
    THEN [ok |-> TRUE, name |-> c.ModelName, isDataset |-> FALSE]
    ELSE IF c.DatasetName # ""
    THEN [ok |-> TRUE, name |-> c.DatasetName, isDataset |-> TRUE]
    ELSE [ok |-> FALSE, name |-> c.ModelName, isDataset |-> FALSE]

Validate ==
    /\ pc = "validate"
    /\ LET id == Identity(config)
       IN  /\ ModelOrDataSet' = id.name
           /\ IsDataset' = id.isDataset
           /\ IF id.ok
              THEN /\ pc' = "dotenv"
                   /\ out' = Append(out, Line(IF id.isDataset THEN "Dataset:" ELSE "Model:",
                                              id.name, 0, 0))
                   /\ UNCHANGED exit
              ELSE /\ pc' = "exited"         \* cmd.Help(), error to main.go:312-314
                   /\ exit' = "fatal"
                   /\ out' = out \o <<Line("help", "", 0, 0),
                                      Line("Error: You must set either modelName or datasetName.",
                                           "", 0, 0)>>
    /\ UNCHANGED <<config, justDownload, install, cleanupCorrupted, cfgVars, args,
                   env, cfg0, r2cfg, i, dlLog, dlResults, cleanupLog, sleeps, credChecks, inst>>

----------------------------------------------------------------------------
(* RunE: godotenv.Load(), main.go:185                                       *)

\* godotenv.Load sets the variables of .env that the environment does not
\* hold yet. A variable the code has not read yet stays "?": its first read
\* returns whatever the environment then holds.
DotenvResult(e, S) == [k \in EnvVars |-> IF k \in S /\ e[k] = "" THEN DotenvValue[k] ELSE e[k]]

LoadDotenv ==
    /\ pc = "dotenv"
    /\ \E S \in SUBSET {k \in EnvVars : env[k] = ""} : env' = DotenvResult(env, S)
    /\ pc' = "token2"
    /\ UNCHANGED <<config, justDownload, install, cleanupCorrupted, exit, cfgVars,
                   args, cfg0, IsDataset, ModelOrDataSet, r2cfg, i, dlLog, dlResults,
                   cleanupLog, out, sleeps, credChecks, inst>>

----------------------------------------------------------------------------
(* RunE: storage-target assembly, main.go:197-234                           *)

\* Mutant of the credential check: fatal only when all three are absent.
CredentialsMissingAll(accountID, accessKey, secretKey) ==
    accountID = "" /\ accessKey = "" /\ secretKey = ""

\* main.go:206
CredentialsMissing(accountID, accessKey, secretKey) ==
    accountID = "" \/ accessKey = "" \/ secretKey = ""

\* Mutant of the bucket-name chain: no fallback to the account id.
BucketNameNoAccount(cfgBucket, envBucket, accountID) ==
    IF cfgBucket = "" THEN envBucket ELSE cfgBucket

\* main.go:212-218
BucketName(cfgBucket, envBucket, accountID) ==
    IF cfgBucket = ""
    THEN IF envBucket = "" THEN accountID ELSE envBucket
    ELSE cfgBucket

\* main.go:221-224
Subfolder(cfgSubfolder) ==
    IF cfgSubfolder = <<>> THEN Str_hf_dataset ELSE cfgSubfolder

\* main.go:226-233
R2Config(accountID, accessKey, secretKey, bucketName, subfolder) ==
    [isNil |-> FALSE, AccountID |-> accountID, AccessKeyID |-> accessKey,
     AccessKeySecret |-> secretKey, BucketName |-> bucketName, Region |-> "auto",
     Subfolder |-> subfolder]

AssembleStorageTarget ==
    /\ pc = "assemble"
    /\ IF ~config.UseR2
       THEN /\ pc' = "mode"
            /\ out' = Append(out, Line("Branch:", config.AuthToken, 0, 0))
            /\ UNCHANGED <<env, r2cfg, credChecks, exit>>
       ELSE \E accountID \in Getenv(env, "R2_ACCOUNT_ID"),
               accessKey \in Getenv(env, "R2_WRITE_ACCESS_KEY_ID"),
               secretKey \in Getenv(env, "R2_WRITE_SECRET_ACCESS_KEY") :
               /\ credChecks' = credChecks + 1
               /\ IF CredentialsMissing(accountID, accessKey, secretKey)
                  THEN /\ pc' = "exited"     \* log.Fatal, main.go:207
                       /\ exit' = "fatal"
                       /\ out' = out \o <<Line("Branch:", config.AuthToken, 0, 0),
                                          Line("R2 credentials not found in environment variables",
                                               "", 0, 0)>>
                       /\ env' = [env EXCEPT !["R2_ACCOUNT_ID"] = accountID,
                                             !["R2_WRITE_ACCESS_KEY_ID"] = accessKey,
                                             !["R2_WRITE_SECRET_ACCESS_KEY"] = secretKey]
                       /\ UNCHANGED r2cfg
                  ELSE \E envBucket \in (IF config.R2BucketName = ""
                                         THEN Getenv(env, "R2_BUCKET_NAME")
                                         ELSE {env["R2_BUCKET_NAME"]}) :
                          /\ pc' = "mode"
                          /\ out' = Append(out, Line("Branch:", config.AuthToken, 0, 0))
                          /\ env' = [env EXCEPT !["R2_ACCOUNT_ID"] = accountID,
                                                !["R2_WRITE_ACCESS_KEY_ID"] = accessKey,
                                                !["R2_WRITE_SECRET_ACCESS_KEY"] = secretKey,
                                                !["R2_BUCKET_NAME"] = envBucket]
                          /\ r2cfg' = R2Config(accountID, accessKey, secretKey,
                                               BucketName(config.R2BucketName,
                                                          envBucket, accountID),
                                               Subfolder(config.R2Subfolder))
                          /\ UNCHANGED exit
    /\ UNCHANGED <<config, justDownload, install, cleanupCorrupted, cfgVars, args,
                   cfg0, IsDataset, ModelOrDataSet, i, dlLog, dlResults, cleanupLog, sleeps, inst>>

----------------------------------------------------------------------------
(* RunE: cleanup mode, main.go:236-244                                      *)

\* main.go:238
CleanupPrefix(subfolder) == subfolder \o Slash

CleanupMode ==
    /\ pc = "mode"
    /\ IF ~cleanupCorrupted
       THEN /\ pc' = "loop"
            /\ UNCHANGED <<cleanupLog, out, exit>>
       ELSE IF r2cfg.isNil
       THEN /\ pc' = "exited"                \* r2cfg.Subfolder on a nil pointer
            /\ exit' = "panic"
            /\ UNCHANGED <<cleanupLog, out>>
       ELSE \E failed \in BOOLEAN :
               /\ cleanupLog' = Append(cleanupLog,
                                       [r2cfg |-> r2cfg,
                                        prefix |-> CleanupPrefix(r2cfg.Subfolder),
                                        concurrency |-> config.NumConnections])
               /\ pc' = "exited"
               /\ exit' = IF failed THEN "fatal" ELSE "success"
               /\ out' = Append(out, Line(IF failed THEN "Failed to cleanup corrupted files"
                                          ELSE "Cleanup completed", "", 0, 0))
    /\ UNCHANGED <<config, justDownload, install, cleanupCorrupted, cfgVars, args,
                   env, cfg0, IsDataset, ModelOrDataSet, r2cfg, i, dlLog, dlResults, sleeps,
                   credChecks, inst>>

----------------------------------------------------------------------------
(* RunE: download retry loop, main.go:246-269                               *)

\* Mutants of the loop condition: one attempt too many, one too few.
LoopContinuesInclusive(n, maxRetries) == n <= maxRetries

LoopContinuesShort(n, maxRetries) == n < maxRetries - 1

\* Variant of the loop condition that always makes a first attempt.
LoopContinuesAtLeastOnce(n, maxRetries) == n = 0 \/ n < maxRetries

\* The loop condition, main.go:246.
LoopContinues(n, maxRetries) == n < maxRetries

\* Variant of DownloadParams whose connection count grows with the attempt.
DownloadParamsPerAttempt ==
    [name |-> ModelOrDataSet, appendFilter |-> config.OneFolderPerFilter,
     skipSHA |-> config.SkipSHA, isDataset |-> IsDataset, storage |-> config.Storage,
     branch |-> config.Branch, connections |-> config.NumConnections + i,
     token |-> config.AuthToken, silent |-> config.SilentMode, r2cfg |-> r2cfg,
     skipLocal |-> config.SkipLocal, hfPrefix |-> config.HFPrefix,
     maxWorkers |-> config.MaxWorkers]

\* The parameter tuple of hfd.DownloadModel, main.go:247-261.
DownloadParams ==
    [name |-> ModelOrDataSet, appendFilter |-> config.OneFolderPerFilter,
     skipSHA |-> config.SkipSHA, isDataset |-> IsDataset, storage |-> config.Storage,
     branch |-> config.Branch, connections |-> config.NumConnections,
     token |-> config.AuthToken, silent |-> config.SilentMode, r2cfg |-> r2cfg,
     skipLocal |-> config.SkipLocal, hfPrefix |-> config.HFPrefix,
     maxWorkers |-> config.MaxWorkers]

\* One iteration: the call, then either the warning, the sleep and i++, or
\* the completion message and return nil.
DownloadAttempt ==
    /\ pc = "loop"
    /\ LoopContinues(i, config.MaxRetries)
    /\ dlLog' = Append(dlLog, DownloadParams)
    /\ \E failed \in BOOLEAN :
          /\ dlResults' = Append(dlResults, IF failed THEN "error" ELSE "ok")
          /\ IF failed
             THEN /\ out' = Append(out, Line("Warning: attempt failed", "", i + 1,
                                             config.MaxRetries))
                  /\ sleeps' = Append(sleeps, config.RetryInterval)
                  /\ i' = i + 1
                  /\ UNCHANGED <<pc, exit>>
             ELSE /\ out' = Append(out, Line("Download completed successfully",
                                             ModelOrDataSet, 0, 0))
                  /\ pc' = "exited"
                  /\ exit' = "success"
                  /\ UNCHANGED <<sleeps, i>>
    /\ UNCHANGED <<config, justDownload, install, cleanupCorrupted, cfgVars, args,
                   env, cfg0, IsDataset, ModelOrDataSet, r2cfg, cleanupLog,
                   credChecks, inst>>

\* main.go:269, then log.Fatalln in main.go:312-314.
RetriesExhausted ==
    /\ pc = "loop"
    /\ ~LoopContinues(i, config.MaxRetries)
    /\ out' = Append(out, Line("failed to download", ModelOrDataSet,
                               config.MaxRetries, 0))
    /\ pc' = "exited"
    /\ exit' = "fatal"
    /\ UNCHANGED <<config, justDownload, install, cleanupCorrupted, cfgVars, args,
                   env, cfg0, IsDataset, ModelOrDataSet, r2cfg, i, dlLog, dlResults,
                   cleanupLog, sleeps, credChecks, inst>>

----------------------------------------------------------------------------
(* rootCmd.Execute: the state it starts in                                  *)

\* Effective configurations a run starts with: every value below can be
\* given by a flag (main.go:274-310); the other fields keep their defaults.
\* The r2-* values are varied only together with --r2: RunE reads them
\* nowhere outside the branch of main.go:201.
R2Settings ==
    {[use |-> FALSE, bucket |-> "", sub |-> Str_hf_dataset, creds |-> ""]}
    \cup {[use |-> TRUE, bucket |-> b, sub |-> sub, creds |-> c] :
            b \in {"", "cli-bucket"}, sub \in {<<>>, <<"a">>, <<"a", "/">>},
            c \in {"", "cli-credential"}}

RunConfigs ==
    {[DefaultConfig EXCEPT !.ModelName = m, !.DatasetName = d, !.AuthToken = t,
                           !.Storage = s, !.MaxRetries = n, !.UseR2 = r2.use,
                           !.R2BucketName = r2.bucket, !.R2Subfolder = r2.sub,
                           !.R2AccountID = r2.creds, !.R2AccessKey = r2.creds,
                           !.R2SecretKey = r2.creds] :
        m \in {"", "org/model"}, d \in {"", "org/dataset"}, t \in {"", "cli-token"},
        s \in {"./", "/data"}, n \in (0 - 1)..MaxRetriesBound, r2 \in R2Settings}

ArgLists == {[j \in 1..k |-> IF j = 1 THEN "arg/model" ELSE "extra"] : k \in 0..MaxArgs}

Init ==
    /\ pc = "args"
    /\ config \in RunConfigs
    /\ cfg0 = config
    /\ justDownload \in BOOLEAN
    /\ install \in BOOLEAN
    /\ cleanupCorrupted \in BOOLEAN
    /\ args \in ArgLists
    /\ fileKeys = {}
    /\ fileVal = DefaultConfig
    /\ jdEnv = ""
    /\ cliSet = {}
    /\ cliVal = [fl \in FlagNames |->
                   IF FlagTarget[fl] = "" THEN FALSE ELSE ZeroConfig[FlagTarget[fl]]]
    /\ env = [k \in EnvVars |-> "?"]
    /\ IsDataset = FALSE
    /\ ModelOrDataSet = ""
    /\ r2cfg = NilR2Config
    /\ i = 0
    /\ dlLog = <<>>
    /\ dlResults = <<>>
    /\ cleanupLog = <<>>
    /\ out = <<>>
    /\ sleeps = <<>>
    /\ credChecks = 0
    /\ exit = "running"
    /\ inst = NoInstall

Next ==
    \/ ArgsCheck
    \/ JustDownloadMode
    \/ ResolveToken1
    \/ InstallBranch
    \/ InstallLocate
    \/ InstallCheckExisting
    \/ InstallCopy
    \/ InstallElevate
    \/ Validate
    \/ LoadDotenv
    \/ ResolveToken2
    \/ AssembleStorageTarget
    \/ CleanupMode
    \/ DownloadAttempt
    \/ RetriesExhausted

Spec == Init /\ [][Next]_vars

----------------------------------------------------------------------------
(* Properties of the download retry loop                                    *)

Warnings == Count(out, "Warning: attempt failed")

ExhaustionErrors == Count(out, "failed to download")

AllFailed(results) == \A j \in 1..Len(results) : results[j] = "error"

\* C1: if the download operation fails on its first k-1 calls and succeeds on
\* call k, the run has ended with success after exactly k calls (k at most
\* MaxRetries), k-1 warnings numbered 1..k-1 and k-1 sleeps; as this holds in
\* every state that follows the success, nothing is called, printed as a
\* warning or slept after it.
C1_SuccessAfterK ==
    \A k \in 1..Len(dlResults) :
        (dlResults[k] = "ok" /\ AllFailed(SubSeq(dlResults, 1, k - 1)))
        => /\ Len(dlResults) = k
           /\ Len(dlLog) = k
           /\ k <= config.MaxRetries
           /\ pc = "exited"
           /\ exit = "success"
           /\ Warnings = k - 1
           /\ Len(sleeps) = k - 1
           /\ \A j \in 1..(k - 1) : sleeps[j] = config.RetryInterval
           /\ out[Len(out)] = Line("Download completed successfully", ModelOrDataSet, 0, 0)
           /\ ExhaustionErrors = 0

\* C1 witness: MaxRetries = 3, fail, fail, success.
C1_Witness ==
    /\ config.MaxRetries = 3
    /\ dlResults = <<"error", "error", "ok">>
    /\ exit = "success"
    /\ Warnings = 2
    /\ Len(sleeps) = 2

\* C2: with MaxRetries = N >= 1 the download operation is never called more
\* than N times; a run whose every call failed and that has ended made
\* exactly N calls and printed exactly N warnings, its last line is the one
\* final error naming the target and N, and it ended with failure; and the
\* final error is printed only after N failed calls.
C2_Exhaustion ==
    config.MaxRetries >= 1 =>
        /\ Len(dlLog) <= config.MaxRetries
        /\ (pc = "exited" /\ dlResults # <<>> /\ AllFailed(dlResults))
           => /\ Len(dlLog) = config.MaxRetries
              /\ Warnings = config.MaxRetries
              /\ ExhaustionErrors = 1
              /\ out[Len(out)] = Line("failed to download", ModelOrDataSet,
                                      config.MaxRetries, 0)
              /\ exit = "fatal"
        /\ ExhaustionErrors >= 1
           => /\ Len(dlLog) = config.MaxRetries
              /\ AllFailed(dlResults)
              /\ pc = "exited"

\* C2 witness: MaxRetries = 3, three failed calls, the final error.
C2_Witness ==
    /\ config.MaxRetries = 3
    /\ dlResults = <<"error", "error", "error">>
    /\ Warnings = 3
    /\ ExhaustionErrors = 1
    /\ exit = "fatal"

----------------------------------------------------------------------------
(* Properties of the identity validation                                    *)

UsageError == Line("Error: You must set either modelName or datasetName.", "", 0, 0)

\* The Args validator accepted the command line and just-download mode has
\* been applied: config names what the run will use.
Resolved == pc \notin {"args", "runE"} /\ ~ArgsError(justDownload, args)

\* C3: once the names are resolved, a run without the install flag in which
\* neither the model name nor the dataset name is set never makes a download
\* call, a cleanup call or a credential check, never gets past validation,
\* and ends with the usage error.
C3_NoIdentityNoExternalCall ==
    (Resolved /\ ~install /\ config.ModelName = "" /\ config.DatasetName = "")
    => /\ dlLog = <<>>
       /\ cleanupLog = <<>>
       /\ credChecks = 0
       /\ r2cfg.isNil
       /\ pc \in {"token1", "installBranch", "validate", "exited"}
       /\ pc = "exited" => (exit = "fatal" /\ out[Len(out)] = UsageError)

\* C3 witness: such a run has ended.
C3_Witness ==
    /\ pc = "exited"
    /\ ~install
    /\ config.ModelName = ""
    /\ config.DatasetName = ""
    /\ config.UseR2
    /\ cleanupCorrupted
    /\ Len(out) > 0
    /\ out[Len(out)] = UsageError

\* C4 (as claimed): whenever the download or the cleanup operation is about
\* to be invoked, exactly one of model name and dataset name is non-empty.
C4_ExactlyOneIdentity ==
    LET invokesDownload == pc = "loop" /\ LoopContinues(i, config.MaxRetries)
        invokesCleanup  == pc = "mode" /\ cleanupCorrupted /\ ~r2cfg.isNil
    IN  (invokesDownload \/ invokesCleanup)
        => ((config.ModelName = "") # (config.DatasetName = ""))

----------------------------------------------------------------------------
(* Properties of the configuration resolver (SpecConfig)                    *)

\* The value of a field that the program goes on to use: the flag
\* justDownload is bound to the local variable, not to config.JustDownload.
Effective(f) == IF f = "JustDownload" THEN justDownload ELSE config[f]

FlagFor(f) == IF f = "JustDownload" THEN "justDownload" ELSE FlagOf(f)

\* Flag over file over default.
Expected(f) ==
    IF FlagFor(f) \in cliSet THEN cliVal[FlagFor(f)]
    ELSE IF f \in fileKeys THEN fileVal[f]
    ELSE DefaultConfig[f]

\* C5 (as claimed): when the command line has been parsed, every field holds
\* the flag's value if a flag sets it, else the file's value if the file sets
\* it, else the default (the storage path forced by
\* HFDOWNLOADER_JUST_DOWNLOAD is left aside).
C5_Precedence ==
    pc = "execute" =>
        \A f \in Fields :
            \/ f = "Storage" /\ jdEnv \in {"1", "true"}
            \/ Effective(f) = Expected(f)

----------------------------------------------------------------------------
(* Properties of the auth-token resolution                                  *)

Deprecations == Count(out, "DeprecationWarning")

\* C6 (as claimed): the token passed to the download operation is the
\* explicit token if non-empty, else HF_TOKEN if non-empty, else
\* HUGGING_FACE_HUB_TOKEN, the variables being those of the environment the
\* call is made in; and the deprecation notice has been printed once if the
\* deprecated variable alone supplies the value and not at all otherwise.
C6_TokenPrecedence ==
    \A j \in 1..Len(dlLog) :
        LET explicit == cfg0.AuthToken
            hf  == env["HF_TOKEN"]
            hub == env["HUGGING_FACE_HUB_TOKEN"]
        IN  /\ dlLog[j].token = (IF explicit # "" THEN explicit
                                 ELSE IF hf # "" THEN hf
                                 ELSE hub)
            /\ Deprecations = (IF explicit = "" /\ hf = "" /\ hub # "" THEN 1 ELSE 0)

----------------------------------------------------------------------------
(* Properties of the storage-target assembly                                *)

CredentialVars == {"R2_ACCOUNT_ID", "R2_WRITE_ACCESS_KEY_ID", "R2_WRITE_SECRET_ACCESS_KEY"}

\* One of the three variables was read and found absent.
R2CredsAbsent == \E k \in CredentialVars : env[k] = ""

\* All three were read and found present.
R2CredsPresent == \A k \in CredentialVars : env[k] \notin {"", "?"}

CredentialsError == Line("R2 credentials not found in environment variables", "", 0, 0)

\* C7: with the toggle on and one of the three variables absent, the run has
\* ended fatally on the credential error after a single credential check,
\* whatever else is configured; no storage target exists, and no download
\* call, cleanup call, warning or sleep has happened. Conversely a download
\* or cleanup call of a run with the toggle on found all three present.
C7_MissingCredentialsFatal ==
    /\ credChecks <= 1
    /\ (config.UseR2 /\ R2CredsAbsent)
       => /\ pc = "exited"
          /\ exit = "fatal"
          /\ out[Len(out)] = CredentialsError
          /\ credChecks = 1
          /\ r2cfg.isNil
          /\ dlLog = <<>>
          /\ cleanupLog = <<>>
          /\ sleeps = <<>>
          /\ Warnings = 0
    /\ (config.UseR2 /\ (dlLog # <<>> \/ cleanupLog # <<>>)) => R2CredsPresent

\* C7 witness: r2-account / r2-access-key / r2-secret-key are configured,
\* the account id is in the environment, the access key is not.
C7_Witness ==
    /\ config.UseR2
    /\ config.R2AccountID # "" /\ config.R2AccessKey # "" /\ config.R2SecretKey # ""
    /\ env["R2_ACCOUNT_ID"] # ""
    /\ env["R2_WRITE_ACCESS_KEY_ID"] = ""
    /\ env["R2_WRITE_SECRET_ACCESS_KEY"] # ""
    /\ exit = "fatal"

\* C8: the bucket name of a constructed storage target is the configured
\* bucket name if non-empty, else R2_BUCKET_NAME if non-empty, else the
\* account id, and it is never empty; and once the three credentials were
\* found present the target is constructed.
C8_BucketFallback ==
    /\ ~r2cfg.isNil
       => /\ r2cfg.BucketName =
                (IF config.R2BucketName # "" THEN config.R2BucketName
                 ELSE IF env["R2_BUCKET_NAME"] # "" THEN env["R2_BUCKET_NAME"]
                 ELSE env["R2_ACCOUNT_ID"])
          /\ r2cfg.BucketName \notin {"", "?"}
    /\ (config.UseR2 /\ R2CredsPresent) => ~r2cfg.isNil

\* C8 witness: neither the configuration nor R2_BUCKET_NAME names a bucket.
C8_Witness ==
    /\ ~r2cfg.isNil
    /\ config.R2BucketName = ""
    /\ env["R2_BUCKET_NAME"] = ""
    /\ r2cfg.BucketName = r2cfg.AccountID

----------------------------------------------------------------------------
(* Properties of cleanup mode                                               *)

EndsWithSlash(str) == Len(str) > 0 /\ str[Len(str)] = "/"

\* C9 (as claimed): the prefix passed to the cleanup operation ends in exactly
\* one separator: the subfolder plus one separator if it has none at its end,
\* the subfolder unchanged if it already ends in one.
C9_PrefixOneSeparator ==
    \A j \in 1..Len(cleanupLog) :
        LET prefix == cleanupLog[j].prefix
            sub    == cleanupLog[j].r2cfg.Subfolder
        IN  /\ EndsWithSlash(prefix)
            /\ ~EndsWithSlash(SubSeq(prefix, 1, Len(prefix) - 1))
            /\ prefix = (IF EndsWithSlash(sub) THEN sub ELSE sub \o Slash)

\* The run got past the storage-target assembly.
PastAssembly ==
    /\ Count(out, "Branch:") = 1
    /\ out[Len(out)] # CredentialsError

\* C10 (as claimed): with the cleanup flag set the download operation is
\* never invoked and nothing is warned or slept; a run that reached cleanup
\* mode and ended made exactly one cleanup call and ended with success after
\* "Cleanup completed" or fatally after the cleanup error.
C10_CleanupOnce ==
    cleanupCorrupted =>
        /\ dlLog = <<>>
        /\ sleeps = <<>>
        /\ Warnings = 0
        /\ pc # "loop"
        /\ Len(cleanupLog) <= 1
        /\ (pc = "exited" /\ PastAssembly)
           => /\ Len(cleanupLog) = 1
              /\ exit \in {"success", "fatal"}
              /\ (exit = "success") = (out[Len(out)].kind = "Cleanup completed")
              /\ (exit = "fatal") = (out[Len(out)].kind = "Failed to cleanup corrupted files")

\* ---------------------------------------------------------------------
\* History of one installBinary run, read from inst.log.

InstallEvents == {inst.log[k] : k \in 1..Len(inst.log)}

EventCount(e) == Cardinality({k \in 1..Len(inst.log) : inst.log[k] = e})

\* Some event of the set S is logged before position k.
Before(k, S) == \E j \in 1..(k - 1) : inst.log[j] \in S

CopyEvents == {"copied", "copy-denied"}

DeniedEvents == {"remove-denied", "copy-denied"}

\* C11: the elevated command is issued only after copyFile has been
\* attempted and only after a permission failure of os.Remove or of
\* copyFile; a run whose copy succeeds with no permission failure never
\* issues it.
C11_UnprivilegedFirst ==
    /\ \A k \in 1..Len(inst.log) :
          inst.log[k] = "sudo" =>
             /\ Before(k, CopyEvents)
             /\ Before(k, DeniedEvents)
    /\ ("copied" \in InstallEvents /\ InstallEvents \cap DeniedEvents = {})
          => /\ "sudo" \notin InstallEvents
             /\ ~inst.needsSudo

C11_Witness ==
    /\ inst.log = <<"removed", "copy-denied", "sudo", "installed">>
    /\ exit = "success"

\* C12: one install run issues the elevated command at most once; when
\* it fails the run ends fatally right there and the destination is never
\* logged; a successful install logs the destination exactly once, as its
\* last step, and a failed install never logs it.
C12_SingleElevationSingleLog ==
    /\ EventCount("sudo") <= 1
    /\ EventCount("installed") <= 1
    /\ "sudo-error" \in InstallEvents
          => /\ inst.log[Len(inst.log)] = "sudo-error"
             /\ inst.log[Len(inst.log) - 1] = "sudo"
             /\ pc = "exited" /\ exit = "fatal" /\ inst.stage = "failed"
    /\ (inst.stage = "installed" \/ (install /\ exit = "success"))
          => /\ EventCount("installed") = 1
             /\ inst.log[Len(inst.log)] = "installed"
             /\ inst.stage = "installed"
             /\ pc = "exited" /\ exit = "success"
             /\ inst.needsSudo = ("sudo" \in InstallEvents)
    /\ (inst.stage = "failed" \/ (install /\ exit = "fatal"))
          => "installed" \notin InstallEvents

C12_Witness ==
    /\ inst.log = <<"stat", "copy-denied", "sudo", "sudo-error">>
    /\ exit = "fatal"

\* Permission failures of the removal and of the Copy step (opening the
\* executable and copyFile), and the other failures of the same calls.
PermissionFailures == {"remove-denied", "open-denied", "copy-denied"}

OtherFailures == {"remove-error", "open-error", "copy-error"}

CopyStepEvents == {"open-denied", "open-error", "copied", "copy-denied", "copy-error"}

\* The classification, for a set P of permission-failure events: each one
\* sets the flag and is not the end of the run, the Copy step follows a
\* denied removal, and every other failure is the fatal end of the run with
\* no copy after it, no elevated command and no success log.
FailureClassification(P) ==
    \A k \in 1..Len(inst.log) :
       /\ inst.log[k] \in P
             => /\ inst.needsSudo
                /\ ~(k = Len(inst.log) /\ pc = "exited")
       /\ inst.log[k] = "remove-denied"
             => \/ k = Len(inst.log) /\ pc = "copy"
                \/ k < Len(inst.log) /\ inst.log[k + 1] \in CopyStepEvents
       /\ inst.log[k] \in OtherFailures
             => /\ k = Len(inst.log)
                /\ pc = "exited" /\ exit = "fatal" /\ inst.stage = "failed"
                /\ InstallEvents \cap {"sudo", "installed"} = {}
                /\ inst.log[k] = "remove-error"
                      => InstallEvents \cap CopyStepEvents = {}

\* C13: a permission failure while removing the existing destination or at
\* the Copy step sets the elevation flag and does not abort, and the Copy
\* step follows a denied removal; any other failure there aborts at once,
\* with no later copy, no elevated command and no success log.
C13_FailureClassification == FailureClassification(PermissionFailures)

\* C14: an install on Windows ends fatally with the unsupported-platform
\* error as its only event: no stat or removal of the destination, no
\* copy and no elevated command happen on that run.
C14_WindowsUnsupported ==
    /\ inst.goos = "windows"
          => /\ inst.log = <<"unsupported">>
             /\ pc = "exited" /\ exit = "fatal" /\ inst.stage = "failed"
             /\ ~inst.needsSudo
    /\ "unsupported" \in InstallEvents => inst.goos = "windows"

C14_Witness ==
    /\ install
    /\ inst.goos = "windows"
    /\ inst.log = <<"unsupported">>
    /\ exit = "fatal"

\* Nothing of the normal execution has happened: no validation, no .env
\* load or storage-target assembly, no cleanup call, no download attempt.
NormalExecutionSkipped ==
    /\ pc \notin {"validate", "dotenv", "token2", "assemble", "mode", "loop"}
    /\ ModelOrDataSet = "" /\ IsDataset = FALSE
    /\ \A k \in 1..Len(out) :
          out[k].kind \in {"DeprecationWarning", "Error: requires a model name argument"}
    /\ r2cfg = NilR2Config /\ credChecks = 0
    /\ cleanupLog = <<>>
    /\ dlLog = <<>> /\ sleeps = <<>> /\ i = 0

\* The install procedure has run to its end and the process has terminated.
InstallRanToEnd ==
    /\ inst.stage \in {"installed", "failed"}
    /\ (inst.stage = "installed") = (exit = "success")
    /\ (inst.stage = "failed") = (exit = "fatal")

\* C15 (as claimed): whenever the install flag is set, the run skips the
\* normal execution, and when the process has terminated the install
\* procedure has run to its end, whatever the other flags are.
C15_InstallShortCircuits ==
    install => /\ NormalExecutionSkipped
               /\ pc = "exited" => InstallRanToEnd

\* C15 (amended): whenever the install flag is set, the run skips the normal
\* execution; if the Args validator accepts the command line, the run can
\* always take a step until the process has terminated, and then the install
\* procedure has run to its end; if the validator rejects it (just-download
\* without an argument), the install procedure never starts.
C15_InstallShortCircuitsAfterArgs ==
    install =>
       /\ NormalExecutionSkipped
       /\ IF ArgsError(justDownload, args)
          THEN inst = NoInstall
          ELSE /\ pc = "exited" => InstallRanToEnd
               /\ pc # "exited" => ENABLED Next

C15_Witness ==
    /\ install /\ cleanupCorrupted /\ justDownload
    /\ config.UseR2 /\ config.DatasetName # ""
    /\ pc = "exited"
    /\ inst.stage = "installed"

\* The Args validator has rejected the command line: the run is over
\* with the argument error, before RunE and before any download attempt.
ArgsRejected ==
    /\ pc = "exited" /\ exit = "fatal"
    /\ out = <<Line("Error: requires a model name argument", "", 0, 0)>>
    /\ dlLog = <<>> /\ cleanupLog = <<>>
    /\ config = cfg0

\* Just-download mode for the argument counts of the set Rejected: those
\* are rejected by the validator, and with any other count the model name
\* is the first argument and the storage path is "./" from RunE on.
JustDownloadRequires(Rejected) ==
    justDownload =>
       IF Len(args) \in Rejected
       THEN pc # "args" => ArgsRejected
       ELSE pc \notin {"args", "runE"} =>
               /\ config.ModelName = args[1]
               /\ config.Storage = "./"
               /\ \A k \in 1..Len(dlLog) : /\ dlLog[k].storage = "./"
                                           /\ ~dlLog[k].isDataset => dlLog[k].name = args[1]

\* C16: with the just-download flag set, zero arguments and more than one
\* argument are both rejected before any download attempt; with exactly
\* one argument the model name is that argument and the storage path is
\* the current directory, whatever file and flags gave.
C16_JustDownloadOneArgument == JustDownloadRequires((0..MaxArgs) \ {1})

\* What the loop reads apart from its counter: the effective configuration,
\* the resolved name and kind, and the storage target.
LoopInputs == <<config, ModelOrDataSet, IsDataset, r2cfg>>

\* C17: the storage target is built once, before the first attempt; all
\* download calls of one run get the same parameter tuple, which is the one
\* the loop would pass now; and a step taken inside the loop changes neither
\* the configuration nor the storage target, the counter being the only
\* program variable it may change.
C17_LoopFrame ==
    /\ [](/\ \A j, k \in 1..Len(dlLog) : dlLog[j] = dlLog[k]
          /\ (pc = "loop" /\ dlLog # <<>>) => dlLog[1] = DownloadParams
          /\ dlLog # <<>> => Count(out, "Branch:") = 1
          /\ credChecks <= 1
          /\ pc = "loop" => i = Len(dlLog))
    /\ [][pc = "loop" => /\ LoopInputs' = LoopInputs
                         /\ i' \in {i, i + 1}
                         /\ credChecks' = credChecks
                         /\ cleanupLog' = cleanupLog]_vars

C17_Witness ==
    /\ Len(dlLog) = MaxRetriesBound
    /\ MaxRetriesBound >= 2
    /\ ~dlLog[Len(dlLog)].r2cfg.isNil
    /\ dlLog[Len(dlLog)].token # ""
    /\ pc = "exited"

\* C18: whenever the run is at the cleanup step with the cleanup flag set,
\* a storage target has been constructed; every cleanup call was made with
\* a target; and no run ends in the dereference of an absent target.
C18_CleanupHasTarget ==
    /\ (pc = "mode" /\ cleanupCorrupted) => ~r2cfg.isNil
    /\ \A k \in 1..Len(cleanupLog) : ~cleanupLog[k].r2cfg.isNil
    /\ exit # "panic"

\* ---------------------------------------------------------------------
\* Runs without the install flag, with progress of the retry loop: a
\* download call that is made returns (DownloadAttempt completes), and
\* the statement after the loop is executed once the loop is left.

InitRetry == Init /\ ~install

NextRetry ==
    \/ ArgsCheck
    \/ JustDownloadMode
    \/ ResolveToken1
    \/ InstallBranch
    \/ Validate
    \/ LoadDotenv
    \/ ResolveToken2
    \/ AssembleStorageTarget
    \/ CleanupMode
    \/ DownloadAttempt
    \/ RetriesExhausted

SpecRetry ==
    /\ InitRetry
    /\ [][NextRetry]_vars
    /\ WF_vars(DownloadAttempt)
    /\ WF_vars(RetriesExhausted)

Max0(n) == IF n > 0 THEN n ELSE 0

\* C19: a run that enters the retry loop leaves it and ends; it makes at
\* most max(MaxRetries, 0) download calls; with MaxRetries <= 0 it makes no
\* call, prints no warning and never sleeps, and a run that got to the loop
\* ends fatally with the exhaustion error that reports MaxRetries attempts.
C19_LoopTerminates ==
    /\ [](/\ Len(dlLog) <= Max0(config.MaxRetries)
          /\ pc = "loop" => i = Len(dlLog)
          /\ config.MaxRetries <= 0
                => /\ dlLog = <<>>
                   /\ Warnings = 0
                   /\ sleeps = <<>>
                   /\ (pc = "exited" /\ PastAssembly /\ ~cleanupCorrupted)
                         => /\ exit = "fatal"
                            /\ out[Len(out)] = Line("failed to download", ModelOrDataSet,
                                                    config.MaxRetries, 0))
    /\ (pc = "loop") ~> (pc = "exited")

C19_Witness ==
    /\ config.MaxRetries < 0
    /\ pc = "exited"
    /\ ExhaustionErrors = 1
    /\ out[Len(out)].n = config.MaxRetries

\* The first evaluation of the token chain is over.
AfterFirstEvaluation == pc \notin {"args", "runE", "token1"}

\* C20: the deprecation notice is printed at most once in a run, and a
\* token held after the first evaluation of the chain is never replaced,
\* whatever godotenv.Load does to the token variables before the second.
C20_WarnOnceTokenKept ==
    /\ [](Deprecations <= 1)
    /\ [][(AfterFirstEvaluation /\ config.AuthToken # "")
             => config'.AuthToken = config.AuthToken]_vars

C20_Witness ==
    /\ pc = "assemble"
    /\ cfg0.AuthToken = ""
    /\ config.AuthToken = EnvValue["HUGGING_FACE_HUB_TOKEN"]
    /\ env["HF_TOKEN"] = DotenvValue["HF_TOKEN"]
    /\ Deprecations = 1

====
